---- MODULE Spec2Model ----
(***************************************************************************)
(* Model of rustc_traits::chalk::evaluate_goal                             *)
(* (compiler/rustc_traits/src/chalk/mod.rs): a canonical goal is rewritten *)
(* (placeholders collected, parameters and regions substituted), encoded   *)
(* as a chalk UCanonical goal, handed to the solver, and the solver's      *)
(* answer is decoded into a canonical query response.                      *)
(***************************************************************************)
EXTENDS Integers, Sequences, FiniteSets

VARIABLES
    pc,                     \* position inside evaluate_goal
    goal,                   \* the `obligation` argument as received
    obligation,             \* the (shadowed) `obligation` local
    placeholders_collector, \* PlaceholdersCollector after visit_with
    restatic_placeholder,   \* region allocated at lines 46-49
    reempty_placeholder,    \* region allocated at lines 50-53
    params,                 \* `_params`
    regions_substitutor,    \* placeholders held by the RegionsSubstitutor
    lowered_goal,           \* `_lowered_goal`
    db,                     \* placeholders held by ChalkRustIrDatabase
    solver_invoked,         \* whether solver.solve has been called
    solution,               \* what solver.solve returned
    result                  \* what evaluate_goal returned (or its abort)

vars == <<pc, goal, obligation, placeholders_collector, restatic_placeholder,
          reempty_placeholder, params, regions_substitutor, lowered_goal, db,
          solver_invoked, solution, result>>

\* ---------------------------------------------------------------- bounds
MaxVars == 2        \* canonical variables per goal: 0..MaxVars
MaxUniverse == 1    \* universe indices 0..MaxUniverse
MaxAnon == 2        \* anonymous-region indices in a goal: 0..MaxAnon-1
MaxValue == 1       \* concrete values the solver may answer with

ROOT == 0

Max(a, b) == IF a >= b THEN a ELSE b

RECURSIVE SetMax(_)
SetMax(S) == IF S = {} THEN 0
             ELSE LET x == CHOOSE y \in S : TRUE IN Max(x, SetMax(S \ {x}))

\* ------------------------------------------------------ canonical variables
Universes == 0..MaxUniverse

SupportedVarKinds ==
    [kind : {"TyGeneral", "Region"}, universe : Universes]
    \cup [kind : {"TyInt", "TyFloat"}, universe : {ROOT}]

UnsupportedVarKinds ==
    [kind : {"PlaceholderTy", "PlaceholderRegion", "Const", "PlaceholderConst"},
     universe : {ROOT}]

CanonicalVarKinds == SupportedVarKinds \cup UnsupportedVarKinds

VariableLists == UNION {[1..n -> CanonicalVarKinds] : n \in 0..MaxVars}

\* The canonicalizer records the highest universe among the variables.
MaxUniverseOf(variables) ==
    SetMax({variables[i].universe : i \in 1..Len(variables)})

GoalValues ==
    [anon_regions : SUBSET (0..MaxAnon - 1),
     singletons : SUBSET {"static", "empty"},
     has_params : BOOLEAN,
     ty_placeholders : {{}}]

Goals ==
    {[variables |-> vs, max_universe |-> MaxUniverseOf(vs), value |-> v] :
        vs \in VariableLists, v \in GoalValues}

\* ------------------------------------------------------------- collaborators
\* PlaceholdersCollector: smallest bound above every index already present.
CollectPlaceholders(value) ==
    [next_anon_region_placeholder |->
         IF value.anon_regions = {} THEN 0 ELSE SetMax(value.anon_regions) + 1,
     next_ty_placehoder |->
         IF value.ty_placeholders = {} THEN 0 ELSE SetMax(value.ty_placeholders) + 1]

\* ParamsSubstitutor: free parameters become fresh placeholder types.
SubstituteParamsIn(value, next_ty) ==
    IF value.has_params
    THEN [value EXCEPT !.has_params = FALSE,
                       !.ty_placeholders = @ \cup {next_ty}]
    ELSE value

ParamsMap(value, next_ty) == IF value.has_params THEN {next_ty} ELSE {}

\* RegionsSubstitutor: the two singleton regions become the two placeholders.
SubstituteRegionsIn(value, restatic, reempty) ==
    [value EXCEPT
        !.singletons = {},
        !.anon_regions =
            @ \cup (IF "static" \in value.singletons THEN {restatic.name} ELSE {})
              \cup (IF "empty" \in value.singletons THEN {reempty.name} ELSE {})]

\* ------------------------------------------------- placeholders (lines 46-53)
RestaticPlaceholder(collector) ==
    [universe |-> ROOT, name |-> collector.next_anon_region_placeholder]

\* faulty variant: the second placeholder reuses the first one's index
ReemptyPlaceholder_sameIndex(collector) ==
    [universe |-> ROOT, name |-> collector.next_anon_region_placeholder]

ReemptyPlaceholder(collector) ==
    [universe |-> ROOT, name |-> collector.next_anon_region_placeholder + 1]

NoPlaceholder == [universe |-> ROOT, name |-> -1]
NoPair == [restatic |-> NoPlaceholder, reempty |-> NoPlaceholder]

\* ---------------------------------------------------- encoder (lines 64-100)
IsSupported(v) == v.kind \in {"TyGeneral", "TyInt", "TyFloat", "Region"}

\* faulty variant: a Const variable is encoded as a general type variable
LowerVarKind_constAsTy(v) ==
    CASE v.kind \in {"TyGeneral", "Const"} ->
            [kind |-> "Ty", ty_kind |-> "General", universe |-> v.universe]
      [] v.kind = "TyInt" ->
            [kind |-> "Ty", ty_kind |-> "Integer", universe |-> ROOT]
      [] v.kind = "TyFloat" ->
            [kind |-> "Ty", ty_kind |-> "Float", universe |-> ROOT]
      [] v.kind = "Region" ->
            [kind |-> "Lifetime", ty_kind |-> "None", universe |-> v.universe]
      [] OTHER ->
            [kind |-> "unimplemented", ty_kind |-> "None", universe |-> ROOT]

\* faulty variant: a Region variable loses its universe
LowerVarKind_regionAtRoot(v) ==
    CASE v.kind = "TyGeneral" ->
            [kind |-> "Ty", ty_kind |-> "General", universe |-> v.universe]
      [] v.kind = "TyInt" ->
            [kind |-> "Ty", ty_kind |-> "Integer", universe |-> ROOT]
      [] v.kind = "TyFloat" ->
            [kind |-> "Ty", ty_kind |-> "Float", universe |-> ROOT]
      [] v.kind = "Region" ->
            [kind |-> "Lifetime", ty_kind |-> "None", universe |-> ROOT]
      [] OTHER ->
            [kind |-> "unimplemented", ty_kind |-> "None", universe |-> ROOT]

\* The closure of lines 72-95; an unsupported kind is unimplemented!().
LowerVarKind(v) ==
    CASE v.kind = "TyGeneral" ->
            [kind |-> "Ty", ty_kind |-> "General", universe |-> v.universe]
      [] v.kind = "TyInt" ->
            [kind |-> "Ty", ty_kind |-> "Integer", universe |-> ROOT]
      [] v.kind = "TyFloat" ->
            [kind |-> "Ty", ty_kind |-> "Float", universe |-> ROOT]
      [] v.kind = "Region" ->
            [kind |-> "Lifetime", ty_kind |-> "None", universe |-> v.universe]
      [] OTHER ->
            [kind |-> "unimplemented", ty_kind |-> "None", universe |-> ROOT]

\* faulty variant: the universe count is the maximum universe itself
EncodeUniverses_noSuccessor(max_universe) == max_universe

EncodeUniverses(max_universe) == max_universe + 1

LowerGoal(ob) ==
    [binders |-> [i \in 1..Len(ob.variables) |-> LowerVarKind(ob.variables[i])],
     universes |-> EncodeUniverses(ob.max_universe)]

EncodePanics(ob) ==
    \E i \in 1..Len(ob.variables) :
        LowerVarKind(ob.variables[i]).kind = "unimplemented"

NoLoweredGoal == [binders |-> <<>>, universes |-> 0]

\* ------------------------------------------------------------------ solver
\* A substitution the solver may return for the binders: either the identity
\* (variable i |-> bound variable i) or concrete values, one per binder.
IdentityAnswer(binders) ==
    [i \in 1..Len(binders) |->
        [kind |-> binders[i].kind, var |-> "Bound", id |-> i - 1]]

ConcreteAnswer(binders, c) ==
    [i \in 1..Len(binders) |->
        [kind |-> binders[i].kind, var |-> "Concrete", id |-> c + i]]

SolverSubstitutions(binders) ==
    {IdentityAnswer(binders)}
    \cup {ConcreteAnswer(binders, c) : c \in 0..MaxValue - 1}

SolverAnswers(binders) ==
    {[tag |-> t, subst |-> <<>>] : t \in {"None", "Unknown"}}
    \cup {[tag |-> t, subst |-> s] :
            t \in {"Unique", "Definite", "Suggested"},
            s \in SolverSubstitutions(binders)}

NotSolved == [tag |-> "NotSolved", subst |-> <<>>]

\* ------------------------------------------------- decoder (lines 112-158)
\* chalk GenericArg -> rustc GenericArg
LowerIntoGenericArg(p) ==
    [kind |-> IF p.kind = "Ty" THEN "Type" ELSE "Region",
     var |-> p.var,
     id |-> p.id]

\* CanonicalVarValues::make_identity: each value of the receiver becomes the
\* bound variable of its own position.
make_identity(var_values) ==
    [i \in 1..Len(var_values) |->
        [kind |-> var_values[i].kind, var |-> "Bound", id |-> i - 1]]

OkResult(variables, var_values, certainty) ==
    [tag |-> "Ok",
     max_universe |-> ROOT,
     variables |-> variables,
     var_values |-> var_values,
     region_constraints |-> {},
     certainty |-> certainty]

\* faulty variant: the values are pushed in reverse order
make_solution_reversed(subst, variables) ==
    OkResult(variables,
             [i \in 1..Len(subst) |->
                 LowerIntoGenericArg(subst[Len(subst) + 1 - i])],
             "Proven")

\* faulty variant: the goal's own max universe is kept
make_solution_keepUniverse(subst, variables) ==
    [OkResult(variables,
              [i \in 1..Len(subst) |-> LowerIntoGenericArg(subst[i])],
              "Proven")
        EXCEPT !.max_universe = MaxUniverseOf(variables)]

\* the closure of lines 112-128
make_solution(subst, variables) ==
    OkResult(variables,
             [i \in 1..Len(subst) |-> LowerIntoGenericArg(subst[i])],
             "Proven")

\* faulty variant: the identity is built over the goal's variables
unknown_solution_overVariables(variables) ==
    OkResult(variables,
             [i \in 1..Len(variables) |->
                 [kind |-> IF variables[i].kind = "Region" THEN "Region" ELSE "Type",
                  var |-> "Bound", id |-> i - 1]],
             "Ambiguous")

\* the Guidance::Unknown arm, lines 139-154
unknown_solution(variables) ==
    OkResult(variables, make_identity(<<>>), "Ambiguous")

NoResult ==
    [tag |-> "Pending", max_universe |-> ROOT, variables |-> <<>>,
     var_values |-> <<>>, region_constraints |-> {}, certainty |-> "None"]

ErrNoSolution == [NoResult EXCEPT !.tag = "NoSolution"]
Panicked == [NoResult EXCEPT !.tag = "Panic"]

\* faulty variant: a missing solution is answered with a default response
DecodeSolution_defaultAnswer(s, variables) ==
    CASE s.tag = "None" -> unknown_solution(variables)
      [] s.tag = "Unique" -> make_solution(s.subst, variables)
      [] s.tag = "Definite" -> make_solution(s.subst, variables)
      [] s.tag = "Suggested" -> Panicked
      [] s.tag = "Unknown" -> unknown_solution(variables)

\* faulty variant: a suggested substitution is decoded like a definite one
DecodeSolution_suggestedDecoded(s, variables) ==
    CASE s.tag = "None" -> ErrNoSolution
      [] s.tag = "Unique" -> make_solution(s.subst, variables)
      [] s.tag = "Definite" -> make_solution(s.subst, variables)
      [] s.tag = "Suggested" -> make_solution(s.subst, variables)
      [] s.tag = "Unknown" -> unknown_solution(variables)

\* lines 129-158: solution.map(|s| match s {..}).ok_or(NoSolution)
DecodeSolution(s, variables) ==
    CASE s.tag = "None" -> ErrNoSolution
      [] s.tag = "Unique" -> make_solution(s.subst, variables)
      [] s.tag = "Definite" -> make_solution(s.subst, variables)
      [] s.tag = "Suggested" -> Panicked
      [] s.tag = "Unknown" -> unknown_solution(variables)

\* ------------------------------------------------------------------ machine
Init ==
    /\ pc = "start"
    /\ goal \in Goals
    /\ obligation = goal
    /\ placeholders_collector =
           [next_anon_region_placeholder |-> 0, next_ty_placehoder |-> 0]
    /\ restatic_placeholder = NoPlaceholder
    /\ reempty_placeholder = NoPlaceholder
    /\ params = {}
    /\ regions_substitutor = NoPair
    /\ lowered_goal = NoLoweredGoal
    /\ db = NoPair
    /\ solver_invoked = FALSE
    /\ solution = NotSolved
    /\ result = NoResult

\* lines 43-53
CollectAndAllocate ==
    /\ pc = "start"
    /\ LET c == CollectPlaceholders(obligation.value) IN
        /\ placeholders_collector' = c
        /\ restatic_placeholder' = RestaticPlaceholder(c)
        /\ reempty_placeholder' = ReemptyPlaceholder(c)
    /\ pc' = "collected"
    /\ UNCHANGED <<goal, obligation, params, regions_substitutor, lowered_goal,
                   db, solver_invoked, solution, result>>

\* lines 55-58
SubstituteParams ==
    /\ pc = "collected"
    /\ obligation' =
           [obligation EXCEPT !.value =
               SubstituteParamsIn(@, placeholders_collector.next_ty_placehoder)]
    /\ params' = ParamsMap(obligation.value,
                           placeholders_collector.next_ty_placehoder)
    /\ pc' = "params_substituted"
    /\ UNCHANGED <<goal, placeholders_collector, restatic_placeholder,
                   reempty_placeholder, regions_substitutor, lowered_goal, db,
                   solver_invoked, solution, result>>

\* lines 60-62
SubstituteRegions ==
    /\ pc = "params_substituted"
    /\ regions_substitutor' =
           [restatic |-> restatic_placeholder, reempty |-> reempty_placeholder]
    /\ obligation' =
           [obligation EXCEPT !.value =
               SubstituteRegionsIn(@, restatic_placeholder, reempty_placeholder)]
    /\ pc' = "regions_substituted"
    /\ UNCHANGED <<goal, placeholders_collector, restatic_placeholder,
                   reempty_placeholder, params, lowered_goal, db,
                   solver_invoked, solution, result>>

\* lines 64-100, every variable kind supported
Encode ==
    /\ pc = "regions_substituted"
    /\ ~EncodePanics(obligation)
    /\ lowered_goal' = LowerGoal(obligation)
    /\ pc' = "encoded"
    /\ UNCHANGED <<goal, obligation, placeholders_collector,
                   restatic_placeholder, reempty_placeholder, params,
                   regions_substitutor, db, solver_invoked, solution, result>>

\* lines 72-95, an unimplemented!() arm is hit while the binders are built
EncodeAbort ==
    /\ pc = "regions_substituted"
    /\ EncodePanics(obligation)
    /\ result' = Panicked
    /\ pc' = "panicked"
    /\ UNCHANGED <<goal, obligation, placeholders_collector,
                   restatic_placeholder, reempty_placeholder, params,
                   regions_substitutor, lowered_goal, db, solver_invoked,
                   solution>>

\* lines 102-105
Solve ==
    /\ pc = "encoded"
    /\ db' = [restatic |-> restatic_placeholder, reempty |-> reempty_placeholder]
    /\ solver_invoked' = TRUE
    /\ \E s \in SolverAnswers(lowered_goal.binders) : solution' = s
    /\ pc' = "solved"
    /\ UNCHANGED <<goal, obligation, placeholders_collector,
                   restatic_placeholder, reempty_placeholder, params,
                   regions_substitutor, lowered_goal, result>>

\* lines 129-158
Decode ==
    /\ pc = "solved"
    /\ result' = DecodeSolution(solution, obligation.variables)
    /\ pc' = IF result'.tag = "Panic" THEN "panicked" ELSE "done"
    /\ UNCHANGED <<goal, obligation, placeholders_collector,
                   restatic_placeholder, reempty_placeholder, params,
                   regions_substitutor, lowered_goal, db, solver_invoked,
                   solution>>

Next ==
    \/ CollectAndAllocate
    \/ SubstituteParams
    \/ SubstituteRegions
    \/ Encode
    \/ EncodeAbort
    \/ Solve
    \/ Decode

Spec == Init /\ [][Next]_vars

\* ------------------------------------------------------------------ claims
AllSupported(variables) ==
    \A i \in 1..Len(variables) : IsSupported(variables[i])

Decoded(subst) == [i \in 1..Len(subst) |-> LowerIntoGenericArg(subst[i])]

Returned == pc = "done"

\* C1 (as stated): when the solver answers Ambiguous(Definite(subst)), the
\* result is Ok, its substitution is decoded exactly as for Unique, and its
\* certainty is Ambiguous, not Proven.
C1_DefiniteIsAmbiguous ==
    (Returned /\ solution.tag = "Definite") =>
        /\ result.tag = "Ok"
        /\ result.var_values = Decoded(solution.subst)
        /\ result.certainty = "Ambiguous"

\* C2 (as stated): when the solver answers Ambiguous(Unknown) for a goal with
\* N variables, the result's substitution has length N, maps the i-th
\* variable to itself, and the certainty is Ambiguous.
C2_UnknownIsIdentityOfLengthN ==
    (Returned /\ solution.tag = "Unknown") =>
        /\ result.tag = "Ok"
        /\ result.certainty = "Ambiguous"
        /\ Len(result.var_values) = Len(goal.variables)
        /\ \A i \in 1..Len(goal.variables) :
               /\ result.var_values[i].var = "Bound"
               /\ result.var_values[i].id = i - 1

\* C2 (amended): when the solver answers Ambiguous(Unknown) for a goal with N
\* variables, the result is Ok with certainty Ambiguous and an empty
\* substitution (the identity over an empty value list), whatever N is; the
\* result still lists the goal's N variables.
C2_UnknownIsEmptyAmbiguous ==
    (solution.tag = "Unknown") =>
        /\ pc \in {"solved", "done"}
        /\ Returned =>
            /\ result.tag = "Ok"
            /\ result.certainty = "Ambiguous"
            /\ result.var_values = <<>>
            /\ Len(result.variables) = Len(goal.variables)

C2_Witness ==
    /\ Returned
    /\ solution.tag = "Unknown"
    /\ Len(goal.variables) = 2
    /\ result.tag = "Ok"
    /\ Len(result.var_values) = 0

\* C3: when the solver answers Unique(subst), the result is Ok with certainty
\* Proven, one value per canonical variable, the i-th value being the
\* reverse-lowering of the i-th solver value; a goal without variables gets
\* an empty variable list and an empty substitution.
C3_UniqueDecodedInOrder ==
    (solution.tag = "Unique") =>
        /\ pc \in {"solved", "done"}
        /\ Returned =>
            /\ result.tag = "Ok"
            /\ result.certainty = "Proven"
            /\ Len(result.var_values) = Len(goal.variables)
            /\ \A i \in 1..Len(goal.variables) :
                   result.var_values[i] = LowerIntoGenericArg(solution.subst[i])
            /\ (goal.variables = <<>>) =>
                   (result.variables = <<>> /\ result.var_values = <<>>)

C3_Witness ==
    /\ Returned
    /\ solution.tag = "Unique"
    /\ solution.subst = IdentityAnswer(lowered_goal.binders)
    /\ Len(goal.variables) = 2
    /\ goal.variables[1].kind = "Region"
    /\ goal.variables[2].kind = "TyInt"
    /\ result.certainty = "Proven"
    /\ Len(result.var_values) = 2

\* C4: when the solver returns no solution the call returns the NoSolution
\* error (no abort, no Ok result), and NoSolution is returned only then.
C4_NoSolutionIffNone ==
    /\ (solution.tag = "None") =>
           /\ pc \in {"solved", "done"}
           /\ Returned => result.tag = "NoSolution"
    /\ (result.tag = "NoSolution") => (Returned /\ solution.tag = "None")

C4_Witness ==
    /\ Returned
    /\ solution.tag = "None"
    /\ result.tag = "NoSolution"
    /\ Len(goal.variables) > 0

\* C5: a goal with a Placeholder-Ty, Placeholder-Region, Const or
\* Placeholder-Const variable aborts while the encoded variable list is
\* built: the solver is never invoked and neither Ok nor NoSolution is
\* returned.
C5_UnsupportedKindAborts ==
    /\ [](~AllSupported(goal.variables) =>
            /\ ~solver_invoked
            /\ solution = NotSolved
            /\ lowered_goal = NoLoweredGoal
            /\ result.tag \in {"Pending", "Panic"}
            /\ pc \in {"start", "collected", "params_substituted",
                       "regions_substituted", "panicked"})
    /\ [][(pc = "regions_substituted" /\ ~AllSupported(goal.variables)) =>
            (pc' = "panicked" /\ result'.tag = "Panic")]_vars

C5_Witness ==
    /\ pc = "panicked"
    /\ result.tag = "Panic"
    /\ ~solver_invoked
    /\ Len(goal.variables) = 2
    /\ IsSupported(goal.variables[1])
    /\ goal.variables[2].kind = "Const"

\* C6: when the solver answers Ambiguous(Suggested(_)) the call aborts: it
\* returns neither an Ok result nor NoSolution.
C6_SuggestedAborts ==
    /\ [](solution.tag = "Suggested" =>
            /\ pc \in {"solved", "panicked"}
            /\ result.tag \in {"Pending", "Panic"})
    /\ [][(pc = "solved" /\ solution.tag = "Suggested") =>
            (pc' = "panicked" /\ result'.tag = "Panic")]_vars

C6_Witness ==
    /\ pc = "panicked"
    /\ solution.tag = "Suggested"
    /\ solver_invoked
    /\ result.tag = "Panic"

Encoded == pc \in {"encoded", "solved", "done"} \/ (pc = "panicked" /\ solver_invoked)

\* C7: for a goal with only supported kinds the encoded `universes` is
\* 1 + the highest universe among the goal's variables, and 1 when the goal
\* has no variables.
C7_UniversesIsMaxPlusOne ==
    Encoded =>
        /\ \A i \in 1..Len(goal.variables) :
               goal.variables[i].universe + 1 <= lowered_goal.universes
        /\ \/ \E i \in 1..Len(goal.variables) :
                  goal.variables[i].universe + 1 = lowered_goal.universes
           \/ (goal.variables = <<>> /\ lowered_goal.universes = 1)

C7_Witness ==
    /\ Encoded
    /\ Len(goal.variables) = 2
    /\ goal.variables[1].universe = 1
    /\ goal.variables[2].universe = 0
    /\ lowered_goal.universes = 2

\* C8: the encoded variable list has the goal's length and order: General at
\* universe u becomes an unconstrained type variable at u, Int/Float an
\* integer/float type variable at the root, Region at u a lifetime variable
\* at u; every encoded universe is below the encoded `universes`.
C8_BindersFollowVariables ==
    Encoded =>
        /\ Len(lowered_goal.binders) = Len(goal.variables)
        /\ \A i \in 1..Len(goal.variables) :
            LET v == goal.variables[i]
                b == lowered_goal.binders[i]
            IN  /\ (v.kind = "TyGeneral") =>
                       (b.kind = "Ty" /\ b.ty_kind = "General"
                        /\ b.universe = v.universe)
                /\ (v.kind = "TyInt") =>
                       (b.kind = "Ty" /\ b.ty_kind = "Integer" /\ b.universe = ROOT)
                /\ (v.kind = "TyFloat") =>
                       (b.kind = "Ty" /\ b.ty_kind = "Float" /\ b.universe = ROOT)
                /\ (v.kind = "Region") =>
                       (b.kind = "Lifetime" /\ b.universe = v.universe)
                /\ b.universe < lowered_goal.universes

C8_Witness ==
    /\ Encoded
    /\ Len(goal.variables) = 2
    /\ goal.variables[1] = [kind |-> "Region", universe |-> 1]
    /\ goal.variables[2] = [kind |-> "TyFloat", universe |-> ROOT]
    /\ lowered_goal.binders[1].kind = "Lifetime"
    /\ lowered_goal.binders[2].ty_kind = "Float"

\* C9: the "static" and "empty" placeholders are at the root universe with
\* anonymous indices N and N+1, N being the collector's bound, above every
\* anonymous-region index of the goal; they collide with no such index nor
\* with each other, and the same pair reaches the region substitutor and
\* the fact database.
C9_FreshPlaceholders ==
    LET N == placeholders_collector.next_anon_region_placeholder
        pair == [restatic |-> restatic_placeholder,
                 reempty |-> reempty_placeholder]
    IN  (pc # "start") =>
            /\ \A a \in goal.value.anon_regions : a < N
            /\ restatic_placeholder = [universe |-> ROOT, name |-> N]
            /\ reempty_placeholder = [universe |-> ROOT, name |-> N + 1]
            /\ restatic_placeholder.name \notin goal.value.anon_regions
            /\ reempty_placeholder.name \notin goal.value.anon_regions
            /\ restatic_placeholder # reempty_placeholder
            /\ (regions_substitutor # NoPair) => regions_substitutor = pair
            /\ (pc \notin {"collected", "params_substituted"}) =>
                   regions_substitutor = pair
            /\ solver_invoked => db = pair

C9_Witness ==
    /\ solver_invoked
    /\ goal.value.anon_regions = {1}
    /\ goal.value.singletons = {"static", "empty"}
    /\ db = regions_substitutor
    /\ db.restatic.name = 2
    /\ db.reempty.name = 3
    /\ obligation.value.anon_regions = {1, 2, 3}

\* C10: every Ok result, whichever decodable answer produced it and whatever
\* the goal's max universe, has max universe root, no region constraints,
\* and the variable list of the encoded goal.
C10_OkResultShape ==
    (result.tag = "Ok") =>
        /\ Returned
        /\ solution.tag \in {"Unique", "Definite", "Unknown"}
        /\ result.max_universe = ROOT
        /\ result.region_constraints = {}
        /\ result.variables = obligation.variables
        /\ result.variables = goal.variables

C10_Witness ==
    /\ result.tag = "Ok"
    /\ solution.tag = "Definite"
    /\ goal.max_universe = 1
    /\ Len(result.variables) = 2
    /\ result.max_universe = ROOT


====
